---- MODULE Spec2Model ----
(***************************************************************************)
(* A model of the remote-control protocol of the video editor demo:        *)
(*   - class Renderer (src/components/sidepanel/PropertySelect.tsx, lines  *)
(*     37-299): commands correlated by id over window.postMessage, the     *)
(*     facade methods, the dispatch of the peer's events, the cached       *)
(*     state tree;                                                         *)
(*   - class VideoCreatorStore (src/stores/VideoCreatorStore.ts): the      *)
(*     observers it registers on its Renderer and its edit operations.     *)
(* JavaScript runs one task at a time: every action below is one task (a   *)
(* call, or one window 'message' event) together with the promise          *)
(* continuations (microtasks) that it makes runnable.                      *)
(***************************************************************************)
EXTENDS Integers, Sequences, FiniteSets, TLC

VARIABLES
    renderers,  \* the Renderer objects constructed so far, in order of construction
    calls,      \* every facade call made so far: its promise and what settled it
    outbox,     \* the messages the last task posted to the peer (contentWindow.postMessage)
    store,      \* the fields of the VideoCreatorStore singleton
    delivered,  \* the window 'message' event the last task handled, if it was one,
                \* and what each Renderer's handler did with it
    result      \* what the call made in the last task returned or threw, if the
                \* task was a tree query or a store operation

vars == <<renderers, calls, outbox, store, delivered, result>>

(***************************************************************************)
(* Bounds of the model.                                                    *)
(***************************************************************************)
\* The number of elements in one element collection of a generated document.
MaxChildren == 2
\* The number of commands issued in one behaviour.
MaxCalls == 2
\* The number of Renderer objects the store constructs in one behaviour.
MaxRenderers == 2

(***************************************************************************)
(* JavaScript values.                                                      *)
(***************************************************************************)
\* The value undefined (a missing field, an unset property).
Undefined == [undefined |-> TRUE]

\* A string and a number as an observer's argument or a promise's value.
Str(s) == [str |-> s]
Num(n) == [num |-> n]
Arr(a) == [arr |-> a]

\* Two state trees as the peer delivers them: a flat one, and one with a
\* nested composition. A state node holds its source descriptor, its resolved
\* track and, for a composition, its child nodes.
StateFlat ==
    [ source   |-> [output_format |-> "mp4"],
      elements |-> << [source |-> [id |-> "a", type |-> "image", track |-> 1], track |-> 1],
                      [source |-> [id |-> "b", type |-> "text", track |-> 2], track |-> 2] >> ]

StateNested ==
    [ source   |-> [output_format |-> "mp4"],
      elements |-> << [ source   |-> [id |-> "c", type |-> "composition", track |-> 1,
                                      elements |-> << [id |-> "d", type |-> "text", track |-> 1] >>],
                        track    |-> 1,
                        elements |-> << [source |-> [id |-> "d", type |-> "text", track |-> 1],
                                         track |-> 1] >> ],
                      [source |-> [id |-> "b", type |-> "text", track |-> 2], track |-> 2] >> ]

StateTrees == {StateFlat, StateNested}

(***************************************************************************)
(* The facade's command vocabulary.                                        *)
(***************************************************************************)
FacadeMethods ==
    { "loadTemplate", "setSource", "setModifications", "applyModifications",
      "undo", "redo", "setActiveElements", "setTime", "play", "pause" }

\* The message name a facade method sends.
CommandName(method) ==
    IF method = "loadTemplate" THEN "setTemplate" ELSE method

\* The text a facade method's catch handler puts before the underlying message.
ErrorPrefix(method) ==
    CASE method = "loadTemplate"       -> "Failed to load template"
      [] method = "setSource"          -> "Failed to set source"
      [] method = "setModifications"   -> "Failed to set modifications"
      [] method = "applyModifications" -> "Failed to apply modifications"
      [] method = "undo"               -> "Failed to undo"
      [] method = "redo"               -> "Failed to redo"
      [] method = "setActiveElements"  -> "Failed to set active elements"
      [] method = "setTime"            -> "Failed set time"
      [] method = "play"               -> "Failed to play"
      [] method = "pause"              -> "Failed to pause"

\* A mutant of FacadeError: the raw error of the reply is passed on.
FacadeErrorRaw(method, message) == message

\* The message of the Error a facade method rejects with when its command is
\* rejected with an Error of the given message.
FacadeError(method, message) ==
    ErrorPrefix(method) \o ": " \o message

\* The value a facade method's promise resolves with, given the value args
\* that its command resolved with: setActiveElements awaits and returns nothing.
FacadeValue(method, args) ==
    IF method = "setActiveElements" THEN Undefined ELSE args

\* A mutant of ShowsIframe: every facade method shows the iframe.
ShowsIframeAlways(method) == TRUE

\* loadTemplate and setSource show the iframe once their command has resolved.
ShowsIframe(method) == method \in {"loadTemplate", "setSource"}

(***************************************************************************)
(* The events the peer sends, and the observers of a Renderer.             *)
(***************************************************************************)
EventNames ==
    { "onReady", "onLoad", "onLoadComplete", "onPlay", "onPause", "onError",
      "onTimeChange", "onActiveElementsChange", "onStateChange" }

\* The observer fields that are set on a Renderer: none after construction;
\* the eight that VideoCreatorStore.initializeVideoPlayer assigns (it assigns
\* no onError); or, for a host that watches the Renderer, all nine, each
\* recording its call.
ObserverNames(kind) ==
    CASE kind = "none"  -> {}
      [] kind = "store" -> EventNames \ {"onError"}
      [] kind = "spy"   -> EventNames

\* The table _pendingPromises with no entry.
NoPending == [id \in {} |-> 0]

\* The Renderer as its constructor leaves it: no state, no pending promise,
\* the message listener added, the iframe appended to the host element and
\* hidden. disposed notes that dispose() has been called on it.
NewRenderer(observers) ==
    [ state     |-> Undefined,
      pending   |-> NoPending,
      listening |-> TRUE,
      attached  |-> TRUE,
      display   |-> "none",
      observers |-> observers,
      disposed  |-> FALSE ]

\* A mutant of Disposed: the message listener is left on the window.
DisposedKeepsListener(r) == [r EXCEPT !.attached = FALSE]

\* Renderer.dispose(): the listener is removed from the window and the iframe
\* from its parent; the pending promises are left as they are.
Disposed(r) == [r EXCEPT !.listening = FALSE, !.attached = FALSE]

\* The store as its constructor leaves it. renderer is the index of the
\* store's Renderer in renderers, 0 for undefined. The fields tracks (the
\* state's elements grouped by utility/groupBy) and timelineScale are left out.
NewStore ==
    [ renderer         |-> 0,
      state            |-> Undefined,
      activeElementIds |-> Arr(<<>>),
      isLoading        |-> TRUE,
      isPlaying        |-> FALSE,
      time             |-> Num(0),
      isScrubbing      |-> FALSE ]

\* The last task was not a window message event.
NoDelivery == [payload |-> [none |-> TRUE], origin |-> "none", runs |-> <<>>]

\* The last task made no call whose outcome is observed.
NoResult == [kind |-> "none"]
\* The call returned (for an async method: its task ran to its first await or
\* to its return) without a value.
Completed == [kind |-> "completed"]
\* The call threw a TypeError (a property of undefined was read).
Threw == [kind |-> "TypeError"]
\* A tree query, called with a predicate or with none, returned a value.
Answer(query, predicate, value) ==
    [kind |-> "returned", query |-> query, predicate |-> predicate, value |-> value]

(***************************************************************************)
(* Renderer._sendCommand and the facade methods.                           *)
(* The operators below map a world (the program's state as a record) to    *)
(* the world after the call.                                                *)
(***************************************************************************)
\* The world when a task begins: it has posted nothing and run no handler yet.
World ==
    [ renderers |-> renderers, calls |-> calls, outbox |-> <<>>,
      store |-> store, runs |-> <<>>, result |-> NoResult ]

\* uuid(): an identifier no earlier call was given.
Uuid(w) == Len(w.calls) + 1

\* JSON.parse(JSON.stringify(message)): a copy, field by field. The messages
\* of the model hold strings, numbers, booleans, arrays and plain objects only.
JsonRoundTrip(message) == [f \in DOMAIN message |-> message[f]]

\* The caller does nothing more once the facade's promise settles.
NoContinuation == [kind |-> "none"]

\* A facade method called on renderer r: _sendCommand posts {id, ...message}
\* to the iframe's contentWindow if it has one (a removed iframe has none) and
\* registers the promise's resolve and reject under the id. cont is what the
\* caller does after the await. The call's record holds the facade promise's
\* status with its value or its error message, the message of the Error that
\* the command's own promise was rejected with (rejection), the number of
\* times resolve or reject was called (settles) and the id of the reply that
\* settled it (replyId).
SendCommand(w, r, method, params, cont) ==
    LET id      == Uuid(w)
        message == params @@ [message |-> CommandName(method)]
        posted  == JsonRoundTrip(message) @@ [id |-> id]
        call    == [ id        |-> id,
                     renderer  |-> r,
                     method    |-> method,
                     status    |-> "pending",
                     value     |-> Undefined,
                     rejection |-> "",
                     error     |-> "",
                     settles   |-> 0,
                     replyId   |-> 0,
                     cont      |-> cont ]
    IN  [w EXCEPT !.outbox = IF w.renderers[r].attached THEN Append(@, posted) ELSE @,
                  !.renderers[r].pending = (id :> (Len(w.calls) + 1)) @@ @,
                  !.calls = Append(@, call)]

\* The parameters the model's callers pass to each facade method.
SourceDocument ==
    [elements |-> << [id |-> "a", track |-> 1], [id |-> "b", track |-> 2] >>]

FacadeParams(method) ==
    CASE method = "loadTemplate"       -> [templateId |-> "template"]
      [] method = "setSource"          -> [source |-> SourceDocument, createUndoPoint |-> FALSE]
      [] method = "setModifications"   -> [modifications |-> [a |-> "x"]]
      [] method = "applyModifications" -> [modifications |-> [a |-> "x"]]
      [] method = "setActiveElements"  -> [elementIds |-> <<"a">>]
      [] method = "setTime"            -> [time |-> 1]
      [] OTHER                         -> [f \in {} |-> 0]

(***************************************************************************)
(* Renderer._handleMessage.                                                *)
(***************************************************************************)
\* e.data && typeof e.data === 'object'. A payload that is no object is
\* modelled as a record with the one field primitive.
IsObject(p) == "primitive" \notin DOMAIN p

\* const { id, message, error, ...args } = e.data
Args(p) == [f \in DOMAIN p \ {"id", "message", "error"} |-> p[f]]

\* if (id): the payload has an id that is neither 0 nor the empty string
\* (ids are numbers in the model, and 0 stands for every falsy id).
HasId(p) == "id" \in DOMAIN p /\ p.id # 0

\* if (error): the payload has an error that is not the empty string.
HasError(p) == "error" \in DOMAIN p /\ p.error # ""

\* The message name of a payload, "" when it has none.
MessageName(p) == IF "message" \in DOMAIN p THEN p.message ELSE ""

\* args.state, args.time, args.elementIds, args.error as an observer gets them.
ArgState(args) == IF "state" \in DOMAIN args THEN args.state ELSE Undefined
ArgTime(args) == IF "time" \in DOMAIN args THEN Num(args.time) ELSE Undefined
ArgElementIds(args) == IF "elementIds" \in DOMAIN args THEN Arr(args.elementIds) ELSE Undefined
ArgError(args) == IF "error" \in DOMAIN args THEN Str(args.error) ELSE Undefined

\* A mutant of PendingLookup: the entry of the oldest pending promise is
\* taken, whatever the id.
PendingLookupOldest(pending, id) ==
    IF DOMAIN pending = {} THEN {}
    ELSE {pending[CHOOSE k \in DOMAIN pending : \A j \in DOMAIN pending : k <= j]}

\* this._pendingPromises[id]: the call registered under the id, if any.
PendingLookup(pending, id) ==
    IF id \in DOMAIN pending THEN {pending[id]} ELSE {}

\* A mutant of PendingRemove: the entry is kept.
PendingKept(pending, id) == pending

\* delete this._pendingPromises[id]
PendingRemove(pending, id) == [k \in DOMAIN pending \ {id} |-> pending[k]]

\* VideoCreatorStore.setActiveElements(...elementIds)
StoreSetActiveElements(w, elementIds) ==
    LET w1 == [w EXCEPT !.store.activeElementIds = Arr(elementIds)]
    IN  IF w1.store.renderer = 0 THEN w1
        ELSE SendCommand(w1, w1.store.renderer, "setActiveElements",
                         [elementIds |-> elementIds], NoContinuation)

\* What the caller of a facade method does once the promise of call i has
\* settled: createElement, after its setSource has resolved, selects the new
\* element; a rejection ends the caller.
Continue(w, i) ==
    LET c == w.calls[i]
    IN  IF c.cont.kind = "createElement" /\ c.status = "resolved"
        THEN StoreSetActiveElements(w, <<c.cont.id>>)
        ELSE w

\* pendingPromise.reject(new Error(error)) or pendingPromise.resolve(args) for
\* call i, followed by the facade method's continuation: its catch handler
\* rethrows with the method's own text; loadTemplate and setSource show the
\* iframe after a resolved command. A promise settles once: a second resolve
\* or reject of the same promise is counted and changes nothing else.
Settle(w, i, p) ==
    LET c     == w.calls[i]
        first == c.status = "pending"
        after == IF ~first THEN [c EXCEPT !.settles = @ + 1]
                 ELSE IF HasError(p)
                 THEN [c EXCEPT !.status = "rejected",
                                !.rejection = p.error,
                                !.error = FacadeError(c.method, p.error),
                                !.settles = @ + 1,
                                !.replyId = p.id]
                 ELSE [c EXCEPT !.status = "resolved",
                                !.value = FacadeValue(c.method, Args(p)),
                                !.settles = @ + 1,
                                !.replyId = p.id]
        w1    == [w EXCEPT !.calls[i] = after]
        w2    == IF first /\ ~HasError(p) /\ ShowsIframe(c.method)
                 THEN [w1 EXCEPT !.renderers[c.renderer].display = ""]
                 ELSE w1
    IN  IF first THEN Continue(w2, i) ELSE w2

\* The branch if (id) of _handleMessage on renderer r: the pending promise of
\* the id, if there is one, is settled and its entry deleted.
Reply(w, r, p) ==
    LET found == PendingLookup(w.renderers[r].pending, p.id)
    IN  IF found = {} THEN w
        ELSE LET i  == CHOOSE i \in found : TRUE
                 w1 == [w EXCEPT !.renderers[r].pending = PendingRemove(@, p.id)]
             IN  Settle(w1, i, p)

\* getDefaultSource() of the store, its elements cut to id, type and track.
DefaultSource ==
    [ output_format |-> "mp4",
      elements |-> << [id |-> "062c5fa2", type |-> "image", track |-> 1],
                      [id |-> "46103952", type |-> "shape", track |-> 2],
                      [id |-> "54f16c97", type |-> "text", track |-> 3] >> ]

\* A mutant of StoreTimeChange: the time is taken also while scrubbing.
StoreTimeChangeAlways(w, time) == [w EXCEPT !.store.time = time]

\* renderer.onTimeChange of the store: if (!this.isScrubbing) this.time = time
StoreTimeChange(w, time) ==
    IF w.store.isScrubbing THEN w ELSE [w EXCEPT !.store.time = time]

\* The observers that VideoCreatorStore.initializeVideoPlayer assigns to its
\* renderer r. onStateChange assigns this.state before groupBy reads
\* state.elements, which throws for an undefined state.
StoreObserver(w, r, name, args) ==
    CASE name = "onReady" ->
            SendCommand(w, r, "setSource",
                        [source |-> DefaultSource, createUndoPoint |-> FALSE],
                        NoContinuation)
      [] name = "onLoad"         -> [w EXCEPT !.store.isLoading = TRUE]
      [] name = "onLoadComplete" -> [w EXCEPT !.store.isLoading = FALSE]
      [] name = "onPlay"         -> [w EXCEPT !.store.isPlaying = TRUE]
      [] name = "onPause"        -> [w EXCEPT !.store.isPlaying = FALSE]
      [] name = "onTimeChange"   -> StoreTimeChange(w, args[1])
      [] name = "onActiveElementsChange" ->
            [w EXCEPT !.store.activeElementIds = args[1]]
      [] name = "onStateChange"  -> [w EXCEPT !.store.state = args[1]]

\* this.onX(this, ...args) if the observer onX is set on renderer r. A
\* recording observer notes its name, its arguments and the renderer.state it
\* reads when it is called.
Notify(w, r, name, args) ==
    LET kind == w.renderers[r].observers
    IN  IF name \notin ObserverNames(kind) THEN w
        ELSE IF kind = "store" THEN StoreObserver(w, r, name, args)
        ELSE [w EXCEPT !.runs[Len(w.runs)].invoked =
                 Append(@, [name |-> name, args |-> args,
                            stateSeen |-> w.renderers[r].state])]

\* A mutant of StateChange: the observer is called before the state is cached.
StateChangeNotifiesFirst(w, r, args) ==
    LET w1 == Notify(w, r, "onStateChange", <<ArgState(args)>>)
    IN  [w1 EXCEPT !.renderers[r].state = ArgState(args)]

\* case 'onStateChange': this.state = args.state, then the observer.
StateChange(w, r, args) ==
    Notify([w EXCEPT !.renderers[r].state = ArgState(args)],
           r, "onStateChange", <<ArgState(args)>>)

\* The switch (message) of _handleMessage on renderer r.
Dispatch(w, r, p) ==
    LET message == MessageName(p)
        args    == Args(p)
    IN  CASE message \in {"onReady", "onLoad", "onLoadComplete", "onPlay", "onPause"} ->
                Notify(w, r, message, <<>>)
          [] message = "onError" -> Notify(w, r, message, <<ArgError(args)>>)
          [] message = "onTimeChange" -> Notify(w, r, message, <<ArgTime(args)>>)
          [] message = "onActiveElementsChange" ->
                Notify(w, r, message, <<ArgElementIds(args)>>)
          [] message = "onStateChange" -> StateChange(w, r, args)
          [] OTHER -> w

\* A mutant of RoutesToReply: a payload whose id has no pending promise is
\* taken for an event.
RoutesToReplyIfPending(pending, p) == HasId(p) /\ p.id \in DOMAIN pending

\* if (id) { ... } else { switch (message) ... }: a payload with an id is a
\* reply, whether or not a promise is pending for it.
RoutesToReply(pending, p) == HasId(p)

\* _handleMessage of renderer r for one window message event with data p. The
\* run is noted with the ids that were pending and the state that was cached
\* when it began.
HandleMessageAt(w, r, p) ==
    LET w0 == [w EXCEPT !.runs = Append(@, [ renderer      |-> r,
                                             pendingBefore |-> DOMAIN w.renderers[r].pending,
                                             stateBefore   |-> w.renderers[r].state,
                                             invoked       |-> <<>> ])]
    IN  IF ~IsObject(p) THEN w0
        ELSE IF RoutesToReply(w0.renderers[r].pending, p) THEN Reply(w0, r, p)
        ELSE Dispatch(w0, r, p)

\* The window dispatches the event to the listeners in the order they were
\* added: the renderers r, r+1, ... that have not been disposed.
RECURSIVE Deliver(_, _, _)
Deliver(w, r, p) ==
    IF r > Len(w.renderers) THEN w
    ELSE Deliver(IF w.renderers[r].listening THEN HandleMessageAt(w, r, p) ELSE w,
                 r + 1, p)

(***************************************************************************)
(* What the peer (or any other window) may post to the window.             *)
(***************************************************************************)
\* Replies, without and with an error. Every id that a command may be given
\* appears, so a reply may come in any order, twice, or for an id that is
\* not pending.
PlainReplies ==
    {[id |-> i, state |-> StateNested] : i \in 1..MaxCalls}
    \cup {[id |-> i, error |-> "boom", state |-> StateNested] : i \in 1..MaxCalls}

\* Replies whose error field is the empty string.
EmptyErrorReplies ==
    {[id |-> i, error |-> "", state |-> StateNested] : i \in 1..MaxCalls}

\* Every reply, and replies that name an event.
ReplyPayloads ==
    PlainReplies
    \cup EmptyErrorReplies
    \cup {[id |-> i, message |-> "onStateChange", state |-> StateNested] : i \in 1..MaxCalls}

\* Events: the nine of the vocabulary, one that is not, and a payload
\* without a message name.
EventPayloads ==
    {[message |-> m] : m \in {"onReady", "onLoad", "onLoadComplete", "onPlay", "onPause"}}
    \cup {[message |-> "onError", error |-> "boom"]}
    \cup {[message |-> "onTimeChange", time |-> 1]}
    \cup {[message |-> "onActiveElementsChange", elementIds |-> <<"a">>]}
    \cup {[message |-> "onStateChange", state |-> t] : t \in StateTrees}
    \cup {[message |-> "onUnknown", state |-> StateFlat]}
    \cup {[state |-> StateFlat]}

\* A payload that is no object.
PrimitivePayloads == {[primitive |-> "ping"]}

Payloads == ReplyPayloads \cup EventPayloads \cup PrimitivePayloads

(***************************************************************************)
(* Actions.                                                                *)
(***************************************************************************)
\* The program's state after an operator has run.
Commit(w) ==
    /\ renderers' = w.renderers
    /\ calls' = w.calls
    /\ outbox' = w.outbox
    /\ store' = w.store
    /\ result' = w.result

\* A host calls a facade method of a Renderer it holds.
Facade(method) ==
    \E r \in DOMAIN renderers :
        /\ Len(calls) < MaxCalls
        /\ Commit(SendCommand(World, r, method, FacadeParams(method), NoContinuation))
        /\ delivered' = NoDelivery

loadTemplate == Facade("loadTemplate")
setSource == Facade("setSource")
setModifications == Facade("setModifications")
applyModifications == Facade("applyModifications")
undo == Facade("undo")
redo == Facade("redo")
setActiveElements == Facade("setActiveElements")
setTime == Facade("setTime")
play == Facade("play")
pause == Facade("pause")

\* A host sets the nine observer fields of a Renderer that has none.
RegisterObservers ==
    \E r \in DOMAIN renderers :
        /\ renderers[r].observers = "none"
        /\ renderers' = [renderers EXCEPT ![r].observers = "spy"]
        /\ outbox' = <<>>
        /\ delivered' = NoDelivery
        /\ result' = NoResult
        /\ UNCHANGED <<calls, store>>

\* Renderer.dispose()
dispose ==
    \E r \in DOMAIN renderers :
        /\ renderers' = [renderers EXCEPT ![r] = [Disposed(@) EXCEPT !.disposed = TRUE]]
        /\ outbox' = <<>>
        /\ delivered' = NoDelivery
        /\ result' = NoResult
        /\ UNCHANGED <<calls, store>>

\* One 'message' event on the window, with a payload of the set P.
HandleMessage(P) ==
    \E p \in P :
        LET w == Deliver(World, 1, p)
        IN  /\ Len(w.calls) <= MaxCalls
            /\ Commit(w)
            /\ delivered' = [payload |-> p, origin |-> "peer", runs |-> w.runs]

\* One 'message' event on the window that another window than the iframe's
\* posted, with a payload of the set P. The listener is the same: it reads
\* e.data and neither e.origin nor e.source.
HandleForeignMessage(P) ==
    \E p \in P :
        LET w == Deliver(World, 1, p)
        IN  /\ Len(w.calls) <= MaxCalls
            /\ Commit(w)
            /\ delivered' = [payload |-> p, origin |-> "foreign", runs |-> w.runs]

\* A host has constructed one Renderer; the store has none.
InitHost ==
    /\ renderers = <<NewRenderer("none")>>
    /\ calls = <<>>
    /\ outbox = <<>>
    /\ store = NewStore
    /\ delivered = NoDelivery
    /\ result = NoResult

\* The channel: a host drives one Renderer with setSource and play, watches
\* it or not, and disposes of it, while the window receives any payload.
Next ==
    \/ setSource
    \/ play
    \/ RegisterObservers
    \/ dispose
    \/ HandleMessage(Payloads)

Spec == InitHost /\ [][Next]_vars

\* The facade: a host calls every method of one Renderer, and the window
\* receives replies.
NextFacade ==
    \/ loadTemplate
    \/ setSource
    \/ setModifications
    \/ applyModifications
    \/ undo
    \/ redo
    \/ setActiveElements
    \/ setTime
    \/ play
    \/ pause
    \/ HandleMessage(PlainReplies \cup EmptyErrorReplies)

SpecFacade == InitHost /\ [][NextFacade]_vars

\* The window: a host drives one watched or unwatched Renderer with setSource
\* while the iframe and other windows post payloads to the window.
NextWindow ==
    \/ setSource
    \/ RegisterObservers
    \/ HandleMessage(Payloads)
    \/ HandleForeignMessage(Payloads)

SpecWindow == InitHost /\ [][NextWindow]_vars

(***************************************************************************)
(* The store's operations.                                                 *)
(***************************************************************************)
\* {}: an object without fields.
EmptyObject == [f \in {} |-> 0]

\* Renderer.getSource(state): the source document of a state tree.
RECURSIVE GetSource(_)
\* A mutant of GetSource: a node with children yields only the converted
\* children, without the other fields of its descriptor.
GetSourceFieldsLost(state) ==
    IF state = Undefined THEN EmptyObject
    ELSE IF "elements" \in DOMAIN state
    THEN [elements |-> [k \in DOMAIN state.elements |-> GetSource(state.elements[k])]]
    ELSE state.source

\* A mutant of GetSource: without a state, undefined is returned.
GetSourceNoDefault(state) ==
    IF state = Undefined THEN Undefined
    ELSE IF "elements" \in DOMAIN state
    THEN [elements |-> [k \in DOMAIN state.elements |-> GetSource(state.elements[k])]]
         @@ state.source
    ELSE state.source

GetSource(state) ==
    IF state = Undefined THEN EmptyObject
    ELSE IF "elements" \in DOMAIN state
    THEN [elements |-> [k \in DOMAIN state.elements |-> GetSource(state.elements[k])]]
         @@ state.source
    ELSE state.source

\* A reference to an object: its value, and whether the object is the one
\* the Renderer caches (shared) or an object of the caller's own.
\* deepClone(value) of utility/deepClone: a reference to an independent copy.
DeepClone(value) == [value |-> value, shared |-> FALSE]

\* An assignment through a reference.
Assign(ref, value) == [ref EXCEPT !.value = value]

\* The cached state after the assignments made through ref: they show in it
\* when ref refers to the cached object itself.
LiveAfter(live, ref) == IF ref.shared THEN ref.value ELSE live

\* The maximum of a non-empty set of numbers.
Max(S) == CHOOSE m \in S : \A n \in S : n <= m

\* The id that uuid() gives a new element: a string no element has.
ElementUuid(w) == "new" \o ToString(Len(w.calls) + 1)

\* A mutant of NotLoaded: only the store's renderer is looked at.
NotLoadedNoRenderer(w) == w.store.renderer = 0

\* if (!renderer || !renderer.state) at the head of the edit operations.
NotLoaded(w) ==
    \/ w.store.renderer = 0
    \/ w.renderers[w.store.renderer].state = Undefined

\* The operation throws a TypeError: the world is as it was, and the promise
\* the async method returned is rejected.
Throw(w) == [w EXCEPT !.result = Threw]

\* VideoCreatorStore.createElement(elementSource). getSource() builds a new
\* object with a new elements array for a state that has elements, and the
\* new element is pushed to that array; for a state without elements the
\* read of renderer.state.elements.map throws before anything is written.
\* (The state trees of the model have at least one element.)
CreateElement(w, elementSource) ==
    LET r == w.store.renderer
    IN  IF NotLoaded(w) THEN w
        ELSE IF "elements" \notin DOMAIN w.renderers[r].state THEN Throw(w)
        ELSE LET state    == w.renderers[r].state
                 source   == GetSource(state)
                 newTrack == Max({state.elements[k].track : k \in DOMAIN state.elements}) + 1
                 id       == ElementUuid(w)
                 pushed   == [source EXCEPT !.elements =
                                 Append(@, elementSource @@ [id |-> id, track |-> newTrack])]
             IN  SendCommand(w, r, "setSource",
                             [source |-> pushed, createUndoPoint |-> TRUE],
                             [kind |-> "createElement", id |-> id])

\* const state = deepClone(renderer.state) in deleteElement.
DeleteCopy(state) == DeepClone(state)

\* VideoCreatorStore.deleteElement(elementId): the top-level elements of a
\* copy of the state are filtered and the copy's source is pushed.
DeleteElement(w, elementId) ==
    LET r == w.store.renderer
    IN  IF NotLoaded(w) THEN w
        ELSE IF "elements" \notin DOMAIN w.renderers[r].state THEN Throw(w)
        ELSE LET copy     == DeleteCopy(w.renderers[r].state)
                 filtered == Assign(copy,
                                 [copy.value EXCEPT !.elements =
                                     SelectSeq(@, LAMBDA e : e.source.id # elementId)])
                 w1       == [w EXCEPT !.renderers[r].state = LiveAfter(@, filtered)]
             IN  SendCommand(w1, r, "setSource",
                             [source |-> GetSource(filtered.value), createUndoPoint |-> TRUE],
                             NoContinuation)

\* A mutant of SwapTracks: the elements of the target track stay.
SwapTracksOneWay(elements, track, targetTrack) ==
    [k \in DOMAIN elements |->
        IF elements[k].track = track
        THEN [elements[k] EXCEPT !.source = [track |-> targetTrack] @@ @]
        ELSE elements[k]]

\* A mutant of RearrangeCopy: the cached state itself is worked on.
RearrangeInPlace(state) == [value |-> state, shared |-> TRUE]

\* const state = deepClone(renderer.state) in rearrangeTracks.
RearrangeCopy(state) == DeepClone(state)

\* The loop of rearrangeTracks: the source track of an element whose resolved
\* track is track becomes targetTrack, and the other way round.
SwapTracks(elements, track, targetTrack) ==
    [k \in DOMAIN elements |->
        IF elements[k].track = track
        THEN [elements[k] EXCEPT !.source = [track |-> targetTrack] @@ @]
        ELSE IF elements[k].track = targetTrack
        THEN [elements[k] EXCEPT !.source = [track |-> track] @@ @]
        ELSE elements[k]]

\* VideoCreatorStore.rearrangeTracks(track, direction)
RearrangeTracks(w, track, direction) ==
    LET r           == w.store.renderer
        targetTrack == IF direction = "up" THEN track + 1 ELSE track - 1
    IN  IF NotLoaded(w) THEN w
        ELSE IF targetTrack < 1 THEN w
        ELSE IF "elements" \notin DOMAIN w.renderers[r].state THEN Throw(w)
        ELSE IF SelectSeq(w.renderers[r].state.elements, LAMBDA e : e.track = track) = <<>>
        THEN w
        ELSE LET copy    == RearrangeCopy(w.renderers[r].state)
                 swapped == Assign(copy,
                                [copy.value EXCEPT !.elements =
                                    SwapTracks(@, track, targetTrack)])
                 w1      == [w EXCEPT !.renderers[r].state = LiveAfter(@, swapped)]
             IN  SendCommand(w1, r, "setSource",
                             [source |-> GetSource(swapped.value), createUndoPoint |-> TRUE],
                             NoContinuation)

\* The inputs of the store's operations.
ElementSources == {[type |-> "text"]}
ElementIds == {"a", "d"}
Tracks == {1, 2, 3}
Directions == {"up", "down"}

\* The outcome of a call of a store operation: a normal return of the async
\* method (its promise pending or resolved), or a TypeError.
StoreCall(operation, args, w) ==
    [ kind      |-> IF w.result = Threw THEN Threw.kind ELSE Completed.kind,
      operation |-> operation,
      args      |-> args ]

\* One task that runs a store operation to the world w.
StoreTask(operation, args, w) ==
    /\ Len(w.calls) <= MaxCalls
    /\ Commit([w EXCEPT !.result = StoreCall(operation, args, w)])
    /\ delivered' = NoDelivery

\* VideoCreatorStore.initializeVideoPlayer(htmlElement): the store's Renderer,
\* if it has one, is disposed of; a new one is constructed and given the
\* store's observers.
initializeVideoPlayer ==
    /\ Len(renderers) < MaxRenderers
    /\ LET old == store.renderer
           left == IF old = 0 THEN renderers
                   ELSE [renderers EXCEPT ![old] = [Disposed(@) EXCEPT !.disposed = TRUE]]
       IN  renderers' = Append(left, NewRenderer("store"))
    /\ store' = [store EXCEPT !.renderer = Len(renderers) + 1]
    /\ outbox' = <<>>
    /\ delivered' = NoDelivery
    /\ result' = NoResult
    /\ UNCHANGED calls

createElement ==
    \E elementSource \in ElementSources :
        StoreTask("createElement", [elementSource |-> elementSource],
                  CreateElement(World, elementSource))

deleteElement ==
    \E elementId \in ElementIds :
        StoreTask("deleteElement", [elementId |-> elementId],
                  DeleteElement(World, elementId))

rearrangeTracks ==
    \E track \in Tracks, direction \in Directions :
        StoreTask("rearrangeTracks", [track |-> track, direction |-> direction],
                  RearrangeTracks(World, track, direction))

\* What the window receives while the store runs: the ready event, state
\* changes, an event that is not of the vocabulary, and successful replies.
StorePayloads ==
    {[message |-> "onReady"]}
    \cup {[message |-> "onStateChange", state |-> t] : t \in StateTrees}
    \cup {[message |-> "onUnknown", state |-> StateFlat]}
    \cup {p \in PlainReplies : ~HasError(p)}

\* The store has been constructed and has no Renderer yet.
InitStore ==
    /\ renderers = <<>>
    /\ calls = <<>>
    /\ outbox = <<>>
    /\ store = NewStore
    /\ delivered = NoDelivery
    /\ result = NoResult

\* The editor: the store drives the Renderer it constructs.
NextStore ==
    \/ initializeVideoPlayer
    \/ createElement
    \/ deleteElement
    \/ rearrangeTracks
    \/ HandleMessage(StorePayloads)

SpecStore == InitStore /\ [][NextStore]_vars

(***************************************************************************)
(* Playback time.                                                          *)
(***************************************************************************)
\* VideoCreatorStore.setTime(time)
StoreSetTime(w, time) ==
    LET w1 == [w EXCEPT !.store.time = Num(time)]
    IN  IF w1.store.renderer = 0 THEN w1
        ELSE SendCommand(w1, w1.store.renderer, "setTime", [time |-> time], NoContinuation)

\* The times the store seeks to and the peer reports.
Times == {1, 2}

storeSetTime ==
    \E time \in Times : StoreTask("setTime", [time |-> time], StoreSetTime(World, time))

\* The timeline begins or ends scrubbing: it assigns the store's isScrubbing.
setScrubbing ==
    /\ store' = [store EXCEPT !.isScrubbing = ~@]
    /\ outbox' = <<>>
    /\ delivered' = NoDelivery
    /\ result' = NoResult
    /\ UNCHANGED <<renderers, calls>>

\* What the window receives during playback: time changes and replies.
PlaybackPayloads ==
    {[message |-> "onTimeChange", time |-> t] : t \in Times} \cup PlainReplies

\* Playback: the store seeks, a host calls setTime of a Renderer itself, the
\* timeline scrubs, and the peer reports the time and replies.
NextPlayback ==
    \/ initializeVideoPlayer
    \/ storeSetTime
    \/ setTime
    \/ setScrubbing
    \/ HandleMessage(PlaybackPayloads)

SpecPlayback == InitStore /\ [][NextPlayback]_vars

(***************************************************************************)
(* The tree queries of the Renderer.                                       *)
(***************************************************************************)
\* state.source.type as a condition: the descriptor has a type that is not
\* the empty string.
HasType(state) == "type" \in DOMAIN state.source /\ state.source.type # ""

RECURSIVE GetElements(_), GetNestedElements(_, _)
\* A mutant of GetElements: the node is pushed after its nested elements.
GetElementsPostOrder(state) ==
    IF state = Undefined THEN <<>>
    ELSE (IF "elements" \in DOMAIN state THEN GetNestedElements(state.elements, 1) ELSE <<>>)
         \o (IF HasType(state) THEN <<state>> ELSE <<>>)

\* Renderer.getElements(state)
GetElements(state) ==
    IF state = Undefined THEN <<>>
    ELSE (IF HasType(state) THEN <<state>> ELSE <<>>)
         \o (IF "elements" \in DOMAIN state THEN GetNestedElements(state.elements, 1) ELSE <<>>)

\* for (const nestedElement of state.elements) elements.push(...this.getElements(nestedElement)),
\* from the k-th element on.
GetNestedElements(elements, k) ==
    IF k > Len(elements) THEN <<>>
    ELSE GetElements(elements[k]) \o GetNestedElements(elements, k + 1)

\* A predicate as the callers write it, element.source.field === value for
\* the fields the record predicate gives, applied to an element.
Test(predicate, element) ==
    \A field \in DOMAIN predicate :
        /\ field \in DOMAIN element.source
        /\ element.source[field] = predicate[field]

RECURSIVE FindElement(_, _), FindFrom(_, _, _), FindFromLevelFirst(_, _, _)
\* A mutant of FindFrom: the elements of one level are all tested before
\* any of them is searched.
FindFromLevelFirst(predicate, elements, k) ==
    LET hits == SelectSeq(elements, LAMBDA e : Test(predicate, e))
    IN  IF hits # <<>> THEN hits[1]
        ELSE IF k > Len(elements) THEN Undefined
        ELSE LET nested == FindElement(predicate, elements[k])
             IN  IF nested # Undefined THEN nested
                 ELSE FindFromLevelFirst(predicate, elements, k + 1)

\* The loop of findElement over state.elements, from the k-th element on.
FindFrom(predicate, elements, k) ==
    IF k > Len(elements) THEN Undefined
    ELSE IF Test(predicate, elements[k]) THEN elements[k]
    ELSE LET nested == IF "elements" \in DOMAIN elements[k]
                       THEN FindElement(predicate, elements[k])
                       ELSE Undefined
         IN  IF nested # Undefined THEN nested
             ELSE FindFrom(predicate, elements, k + 1)

\* Renderer.findElement(predicate, state)
FindElement(predicate, state) ==
    IF state # Undefined /\ "elements" \in DOMAIN state
    THEN FindFrom(predicate, state.elements, 1)
    ELSE Undefined

\* The sequences over S of at most n elements.
SeqsUpTo(S, n) == UNION {[1..k -> S] : k \in 0..n}

\* Source documents: two typed and an untyped descriptor without children, a
\* typed composition and an untyped container with up to MaxChildren of
\* them, and documents with up to MaxChildren elements of which at most one
\* has children, or with no element collection at all.
LeafDescriptors ==
    { [id |-> "a", type |-> "text", track |-> 1],
      [id |-> "b", track |-> 2],
      [id |-> "e", type |-> "image", track |-> 2] }

CompositionDescriptors ==
    {[id |-> "c", type |-> "composition", track |-> 1, elements |-> e] :
        e \in SeqsUpTo(LeafDescriptors, MaxChildren)}
    \cup {[id |-> "g", track |-> 2, elements |-> e] :
        e \in SeqsUpTo(LeafDescriptors, MaxChildren)}

\* The sequence s with x inserted as its i-th element.
InsertAt(s, i, x) == SubSeq(s, 1, i - 1) \o <<x>> \o SubSeq(s, i, Len(s))

ElementCollections ==
    SeqsUpTo(LeafDescriptors, MaxChildren)
    \cup {InsertAt(s, i, c) : <<s, i, c>> \in
              {t \in SeqsUpTo(LeafDescriptors, MaxChildren - 1)
                        \X (1..MaxChildren) \X CompositionDescriptors :
                  t[2] <= Len(t[1]) + 1}}

Documents ==
    {[output_format |-> "mp4", elements |-> e] : e \in ElementCollections}
    \cup {[output_format |-> "mp4"]}

\* The peer's expansion of a descriptor into a state node: the node refers
\* to its descriptor, carries the resolved track and, for a descriptor with
\* an element collection, the expanded children in the same order.
RECURSIVE Expand(_)
Expand(descriptor) ==
    (IF "elements" \in DOMAIN descriptor
     THEN [elements |-> [k \in DOMAIN descriptor.elements |-> Expand(descriptor.elements[k])]]
     ELSE EmptyObject)
    @@ (IF "track" \in DOMAIN descriptor THEN [track |-> descriptor.track] ELSE EmptyObject)
    @@ [source |-> descriptor]

\* The state trees a Renderer may have cached: none, the expansion of a
\* document, or a working copy of one in which rearrangeTracks has swapped
\* the tracks 1 and 2.
ExpandedTrees == {Expand(d) : d \in Documents}

RetrackedTrees ==
    {[t EXCEPT !.elements = SwapTracks(@, 1, 2)] :
        t \in {x \in ExpandedTrees : "elements" \in DOMAIN x}}

QueryTrees == {Undefined} \cup ExpandedTrees \cup RetrackedTrees

\* The predicates the queries are called with.
Predicates ==
    {[id |-> "a"], [id |-> "z"], [track |-> 2]}

\* A host holds a Renderer that has cached some tree, or none yet.
InitTree ==
    /\ \E t \in QueryTrees : renderers = <<[NewRenderer("none") EXCEPT !.state = t]>>
    /\ calls = <<>>
    /\ outbox = <<>>
    /\ store = NewStore
    /\ delivered = NoDelivery
    /\ result = NoResult

\* One task in which a host calls a tree query: nothing but the returned
\* value changes.
TreeQuery(answer) ==
    /\ result' = answer
    /\ outbox' = <<>>
    /\ delivered' = NoDelivery
    /\ UNCHANGED <<renderers, calls, store>>

getSource ==
    \E r \in DOMAIN renderers :
        TreeQuery(Answer("getSource", Undefined, GetSource(renderers[r].state)))

getElements ==
    \E r \in DOMAIN renderers :
        TreeQuery(Answer("getElements", Undefined, GetElements(renderers[r].state)))

findElement ==
    \E r \in DOMAIN renderers, predicate \in Predicates :
        TreeQuery(Answer("findElement", predicate, FindElement(predicate, renderers[r].state)))

NextTree ==
    \/ getSource
    \/ getElements
    \/ findElement

SpecTree == InitTree /\ [][NextTree]_vars

(***************************************************************************)
(* The claims.                                                             *)
(***************************************************************************)
\* The runs of _handleMessage in the last task.
Runs == {delivered.runs[k] : k \in DOMAIN delivered.runs}

\* The call that was pending under the id of the payload handled in run.
WasPending(run) ==
    /\ IsObject(delivered.payload)
    /\ HasId(delivered.payload)
    /\ delivered.payload.id \in run.pendingBefore

\* C1: whatever the number of commands in flight and the order of the
\* replies, a call is only ever settled by the reply that carries the id
\* generated for that call.
C1_OwnReply ==
    \A i \in DOMAIN calls :
        calls[i].status # "pending" => calls[i].replyId = calls[i].id

\* Two commands were in flight together and the second was answered first:
\* the reply to the first is the one handled last.
C1_Witness ==
    /\ Len(calls) >= 2
    /\ calls[1].status = "resolved"
    /\ calls[2].status = "resolved"
    /\ \E run \in Runs : WasPending(run) /\ run.pendingBefore = {1}

\* C2: no promise is settled twice. The first reply with an id deletes the
\* entry and settles the call; a reply whose id is not pending (a second
\* reply, or an id never pending) leaves the table as it was.
C2_SettledOnce ==
    /\ \A i \in DOMAIN calls :
          /\ calls[i].settles <= 1
          /\ calls[i].settles = 0 <=> calls[i].status = "pending"
    /\ \A run \in Runs :
          IsObject(delivered.payload) /\ HasId(delivered.payload) =>
              IF WasPending(run)
              THEN /\ DOMAIN renderers[run.renderer].pending
                          = run.pendingBefore \ {delivered.payload.id}
                   /\ calls[delivered.payload.id].settles = 1
              ELSE DOMAIN renderers[run.renderer].pending = run.pendingBefore

\* A second reply for a call that the first reply has settled.
C2_Witness ==
    \E run \in Runs :
        /\ IsObject(delivered.payload)
        /\ HasId(delivered.payload)
        /\ ~WasPending(run)
        /\ delivered.payload.id \in DOMAIN calls
        /\ calls[delivered.payload.id].settles = 1
        /\ run.pendingBefore # {}

\* C3, as the claim states it: when dispose() is called, every call pending
\* on that Renderer is rejected.
C3_DisposeRejectsPending ==
    [][\A r \in DOMAIN renderers :
          ~renderers[r].disposed /\ renderers'[r].disposed =>
              \A i \in DOMAIN calls :
                  calls[i].renderer = r /\ calls[i].status = "pending"
                      => calls'[i].status = "rejected"]_vars

\* C4, as the claim states it: for a reply to a pending call, the presence
\* of the error field alone decides: with it the call is rejected with an
\* error built from it, without it the call is resolved with the other fields.
C4_ErrorFieldDecides ==
    \A run \in Runs :
        WasPending(run) =>
            LET p == delivered.payload
                c == calls[p.id]
            IN  IF "error" \in DOMAIN p
                THEN c.status = "rejected" /\ c.rejection = p.error
                ELSE /\ c.status = "resolved"
                     /\ c.method # "setActiveElements" => c.value = Args(p)

\* The payload handled in the last task is a state-change event.
IsStateChangeEvent(p) ==
    IsObject(p) /\ ~HasId(p) /\ MessageName(p) = "onStateChange"

\* C5: on a state-change event the cached state is the delivered tree, with
\* or without an observer, and the observer, called with the delivered tree,
\* reads renderer.state equal to it.
C5_CacheBeforeNotify ==
    \A run \in Runs :
        /\ IsStateChangeEvent(delivered.payload) =>
              renderers[run.renderer].state = delivered.payload.state
        /\ \A k \in DOMAIN run.invoked :
              run.invoked[k].name = "onStateChange" =>
                  /\ run.invoked[k].args = <<delivered.payload.state>>
                  /\ run.invoked[k].stateSeen = delivered.payload.state

\* The observer of a Renderer that had cached another tree is called for a
\* state-change event.
C5_Witness ==
    \E run \in Runs :
        /\ IsStateChangeEvent(delivered.payload)
        /\ run.stateBefore # delivered.payload.state
        /\ run.stateBefore # Undefined
        /\ Len(run.invoked) = 1

\* C6: the cached state of a Renderer changes only in a task in which that
\* Renderer handles a state-change event, and then to the delivered tree: no
\* command, reply, other event or edit operation of the store replaces it or
\* changes a node of it.
C6_StateOnlyByStateChange ==
    [][\A r \in DOMAIN renderers :
          renderers'[r].state # renderers[r].state =>
              /\ IsStateChangeEvent(delivered'.payload)
              /\ \E k \in DOMAIN delivered'.runs : delivered'.runs[k].renderer = r
              /\ renderers'[r].state = delivered'.payload.state]_vars

\* An edit operation of the store has just pushed a source document that
\* differs from the source of the cached state.
C6_Witness ==
    /\ store.renderer # 0
    /\ renderers[store.renderer].state # Undefined
    /\ Len(outbox) = 1
    /\ outbox[1].message = "setSource"
    /\ outbox[1].createUndoPoint
    /\ outbox[1].source # GetSource(renderers[store.renderer].state)
    /\ outbox[1].source.elements[1].track = 2

\* The payload handled in the last task is an event of the vocabulary
\* without an id.
IsEvent(p) == IsObject(p) /\ ~HasId(p) /\ MessageName(p) \in EventNames

\* C7, as the claim states it: the onError observer, when set, is called
\* with the error that the error event carries, and the event changes
\* neither the pending promises nor the cached state.
C7_ErrorForwarded ==
    \A run \in Runs :
        LET p == delivered.payload
            r == renderers[run.renderer]
        IN  IsEvent(p) /\ p.message = "onError" =>
                /\ DOMAIN r.pending = run.pendingBefore
                /\ r.state = run.stateBefore
                /\ "onError" \in ObserverNames(r.observers) =>
                       run.invoked = << [ name      |-> "onError",
                                          args      |-> <<Str(p.error)>>,
                                          stateSeen |-> r.state ] >>

\* The event named by the payload was dispatched in run: the observer set
\* for it was called once, and a state-change was cached.
Dispatched(run) ==
    LET p == delivered.payload
        r == renderers[run.renderer]
    IN  /\ p.message \in ObserverNames(r.observers) =>
              Len(run.invoked) = 1 /\ run.invoked[1].name = p.message
        /\ p.message = "onStateChange" => r.state = p.state

\* C8, as the claim states it: a payload that names an event of the
\* vocabulary is dispatched as that event unless its id is that of a pending
\* call: also when it carries an id that is not pending.
C8_EventUnlessPending ==
    \A run \in Runs :
        LET p == delivered.payload
        IN  IsObject(p) /\ MessageName(p) \in EventNames /\ ~WasPending(run)
                => Dispatched(run)

\* C8, amended: a payload without an id that names an event of the
\* vocabulary is dispatched as that event; a payload with an id is a reply and
\* is never dispatched as an event, pending or not: no observer is called
\* and the cached state stays.
C8_EventIffNoId ==
    \A run \in Runs :
        LET p == delivered.payload
            r == renderers[run.renderer]
        IN  /\ IsEvent(p) => Dispatched(run)
            /\ IsObject(p) /\ HasId(p) =>
                  run.invoked = <<>> /\ r.state = run.stateBefore

\* A watched Renderer handles a payload that names an event and carries an
\* id for which nothing is pending.
C8_Witness ==
    \E run \in Runs :
        /\ IsObject(delivered.payload)
        /\ HasId(delivered.payload)
        /\ ~WasPending(run)
        /\ MessageName(delivered.payload) \in EventNames
        /\ renderers[run.renderer].observers = "spy"

\* The words by which an error message names each facade method.
CommandWords ==
    [ loadTemplate       |-> "load template",
      setSource          |-> "set source",
      setModifications   |-> "set modifications",
      applyModifications |-> "apply modifications",
      undo               |-> "undo",
      redo               |-> "redo",
      setActiveElements  |-> "set active elements",
      setTime            |-> "set time",
      play               |-> "play",
      pause              |-> "pause" ]

\* C9: a facade call whose reply reports an error (an error that the handler
\* takes for one: not the empty string) is rejected with a message that names
\* the command and ends with the peer's message, never with the peer's message
\* alone; and each call posts one message, when it is made, and none when its
\* reply is handled.
C9_DescriptiveError ==
    /\ \A run \in Runs :
          WasPending(run) /\ HasError(delivered.payload) =>
              LET c == calls[delivered.payload.id]
              IN  /\ c.status = "rejected"
                  /\ c.error # delivered.payload.error
                  /\ c.error \in { "Failed to " \o CommandWords[c.method] \o ": "
                                       \o delivered.payload.error,
                                   "Failed " \o CommandWords[c.method] \o ": "
                                       \o delivered.payload.error }
    /\ IF delivered = NoDelivery
       THEN calls # <<>> =>
                Len(outbox) = 1 /\ outbox[1].id = calls[Len(calls)].id
       ELSE outbox = <<>>

\* setTime, whose text differs from the others', is rejected by an error reply.
C9_Witness ==
    \E run \in Runs :
        /\ WasPending(run)
        /\ HasError(delivered.payload)
        /\ calls[delivered.payload.id].status = "rejected"
        /\ calls[delivered.payload.id].method = "setTime"

\* C10: once dispose() has been called on a Renderer, no task runs its
\* handler, changes its cached state, settles or otherwise changes a call
\* made on it, or posts a message for a call made on it; and it stays
\* disposed.
C10_Severed ==
    [][\A r \in DOMAIN renderers :
          renderers[r].disposed =>
              /\ renderers'[r].disposed
              /\ renderers'[r].state = renderers[r].state
              /\ \A i \in DOMAIN calls : calls[i].renderer = r => calls'[i] = calls[i]
              /\ \A k \in DOMAIN delivered'.runs : delivered'.runs[k].renderer # r
              /\ \A k \in DOMAIN outbox' : calls'[outbox'[k].id].renderer # r]_vars

\* After dispose(), with a call still pending and another made since, the
\* window receives the reply to a pending call.
C10_Witness ==
    /\ renderers[1].disposed
    /\ IsObject(delivered.payload)
    /\ HasId(delivered.payload)
    /\ delivered.payload.id \in DOMAIN renderers[1].pending
    /\ Cardinality(DOMAIN renderers[1].pending) = 2

\* The handler discarded the payload in run: no observer called, no entry
\* of the pending promises removed, the cached state as before.
Discarded(run) ==
    /\ run.invoked = <<>>
    /\ DOMAIN renderers[run.renderer].pending = run.pendingBefore
    /\ renderers[run.renderer].state = run.stateBefore

\* C11, as the claim states it: a payload that is no object, or that another
\* window than the peer's posted, is discarded by every Renderer: it settles
\* no call, invokes no observer and leaves the cached state.
C11_ForeignDiscarded ==
    ~IsObject(delivered.payload) \/ delivered.origin = "foreign" =>
        \A run \in Runs : Discarded(run)

\* C12: the iframe of a new Renderer is hidden, and the iframe of a Renderer
\* is shown only if a loadTemplate or setSource call made on it has been
\* resolved: a pending or rejected one does not show it, nor does any other
\* command.
C12_VisibleOnlyAfterLoad ==
    \A r \in DOMAIN renderers :
        /\ calls = <<>> => renderers[r].display = "none"
        /\ renderers[r].display # "none" =>
              \E i \in DOMAIN calls :
                  /\ calls[i].renderer = r
                  /\ calls[i].method \in {"loadTemplate", "setSource"}
                  /\ calls[i].status = "resolved"

\* The iframe is shown after a loadTemplate was resolved, and a setSource
\* was rejected.
C12_Witness ==
    /\ renderers[1].display = ""
    /\ \E i \in DOMAIN calls : calls[i].method = "loadTemplate" /\ calls[i].status = "resolved"
    /\ \E i \in DOMAIN calls : calls[i].method = "setSource" /\ calls[i].status = "rejected"

\* The call of the tree query named query returned in the last task.
Asked(query) == result.kind = "returned" /\ result.query = query

\* The state a tree query of the last task was applied to.
Queried == renderers[1].state

\* The positions of the nodes of a tree: the sequence of child indices that
\* leads from the root to the node.
RECURSIVE Paths(_)
Paths(node) ==
    {<<>>} \cup
    (IF "elements" \in DOMAIN node
     THEN UNION {{<<k>> \o p : p \in Paths(node.elements[k])} : k \in DOMAIN node.elements}
     ELSE {})

\* The node at a position.
RECURSIVE NodeAt(_, _)
NodeAt(node, path) ==
    IF path = <<>> THEN node ELSE NodeAt(node.elements[Head(path)], Tail(path))

\* Depth-first pre-order: a node comes before its descendants, and the
\* descendants of a node before its next sibling.
Before(p, q) ==
    /\ p # q
    /\ \/ Len(p) < Len(q) /\ SubSeq(q, 1, Len(p)) = p
       \/ \E i \in 1..Len(p) :
              /\ i <= Len(q)
              /\ p[i] < q[i]
              /\ SubSeq(p, 1, i - 1) = SubSeq(q, 1, i - 1)

\* document is node's descriptor with the child collection, if the node has
\* children, replaced by the rebuilt children in their order.
RECURSIVE Rebuilt(_, _)
Rebuilt(document, node) ==
    IF "elements" \notin DOMAIN node THEN document = node.source
    ELSE /\ DOMAIN document = DOMAIN node.source \cup {"elements"}
         /\ \A f \in DOMAIN node.source \ {"elements"} : document[f] = node.source[f]
         /\ Len(document.elements) = Len(node.elements)
         /\ \A k \in DOMAIN node.elements : Rebuilt(document.elements[k], node.elements[k])

\* C13: for a state tree that is the expansion of a document, getSource
\* returns that document; and for any tree, a node without children gives its
\* descriptor and a node with children its descriptor with the children
\* replaced by the converted children, in their order.
C13_RoundTrip ==
    Asked("getSource") /\ Queried # Undefined =>
        /\ Queried = Expand(Queried.source) => result.value = Queried.source
        /\ Rebuilt(result.value, Queried)

\* getSource is applied to the expansion of a document with two elements,
\* the second a composition of two.
C13_Witness ==
    /\ Asked("getSource")
    /\ Queried # Undefined
    /\ Queried = Expand(Queried.source)
    /\ "elements" \in DOMAIN Queried
    /\ Len(Queried.elements) = 2
    /\ "elements" \in DOMAIN Queried.elements[2]
    /\ Len(Queried.elements[2].elements) = 2

\* The positions of the nodes whose descriptor has a type tag.
TypedPaths(state) == {p \in Paths(state) : "type" \in DOMAIN NodeAt(state, p).source}

\* C14: getElements returns the nodes whose descriptor has a type tag, each
\* position once, in depth-first pre-order; nodes without one are left out
\* and their children are visited.
C14_TypedPreOrder ==
    Asked("getElements") /\ Queried # Undefined =>
        LET typed == TypedPaths(Queried)
        IN  /\ Len(result.value) = Cardinality(typed)
            /\ \A p \in typed :
                  result.value[Cardinality({q \in typed : Before(q, p)}) + 1]
                      = NodeAt(Queried, p)

\* getElements is applied to a tree whose first element is a container
\* without a type tag that has a typed child, followed by a typed element.
C14_Witness ==
    /\ Asked("getElements")
    /\ Queried # Undefined
    /\ "elements" \in DOMAIN Queried
    /\ Len(Queried.elements) = 2
    /\ "type" \notin DOMAIN Queried.elements[1].source
    /\ "elements" \in DOMAIN Queried.elements[1]
    /\ <<1, 1>> \in TypedPaths(Queried)
    /\ <<2>> \in TypedPaths(Queried)
    /\ Len(result.value) = 2

\* The positions of the elements (the nodes below the root) that satisfy the
\* predicate.
Matches(predicate, state) ==
    {p \in Paths(state) \ {<<>>} : Test(predicate, NodeAt(state, p))}

\* C15: findElement returns the first element in depth-first pre-order that
\* satisfies the predicate, with or without a type tag, and undefined
\* exactly when no element satisfies it.
C15_FirstMatch ==
    Asked("findElement") /\ Queried # Undefined =>
        LET matches == Matches(result.predicate, Queried)
        IN  IF matches = {} THEN result.value = Undefined
            ELSE /\ result.value # Undefined
                 /\ \E p \in matches :
                       /\ \A q \in matches \ {p} : Before(p, q)
                       /\ result.value = NodeAt(Queried, p)

\* findElement is applied where a nested element and a later, different
\* element of the top level satisfy the predicate, and the nested one has
\* no type tag.
C15_Witness ==
    /\ Asked("findElement")
    /\ Queried # Undefined
    /\ \E p, q \in Matches(result.predicate, Queried) :
          /\ Len(p) = 2
          /\ Len(q) = 1
          /\ Before(p, q)
          /\ NodeAt(Queried, p) # NodeAt(Queried, q)
          /\ "type" \notin DOMAIN NodeAt(Queried, p).source
          /\ result.value = NodeAt(Queried, p)

\* C16: without a cached state getSource returns an empty document,
\* getElements an empty sequence and findElement undefined, each by a normal
\* return.
C16_AbsentState ==
    Queried = Undefined /\ result # NoResult =>
        /\ result.kind = "returned"
        /\ Asked("getSource") => result.value = EmptyObject
        /\ Asked("getElements") => result.value = <<>>
        /\ Asked("findElement") => result.value = Undefined

\* getSource is called on a Renderer that has no cached state.
C16_Witness ==
    /\ Queried = Undefined
    /\ Asked("getSource")

\* The store operation named operation is called in this step.
Calls(operation) ==
    /\ "operation" \in DOMAIN result'
    /\ result'.operation = operation

\* The store has a Renderer with a cached state when the step begins.
Loaded == store.renderer # 0 /\ renderers[store.renderer].state # Undefined

\* The step posts nothing and changes neither the store, nor a Renderer, nor
\* a call.
NothingDone ==
    /\ outbox' = <<>>
    /\ store' = store
    /\ renderers' = renderers
    /\ calls' = calls

\* The step posts one setSource command with an undo point and the source
\* document.
Pushes(document) ==
    /\ Len(outbox') = 1
    /\ outbox'[1].message = "setSource"
    /\ outbox'[1].createUndoPoint
    /\ outbox'[1].source = document

\* The document in which the top-level elements that the state resolves to
\* track T and to track U have exchanged their track numbers.
Exchanged(document, state, T, U) ==
    [document EXCEPT !.elements =
        [k \in DOMAIN document.elements |->
            IF state.elements[k].track = T THEN [document.elements[k] EXCEPT !.track = U]
            ELSE IF state.elements[k].track = U THEN [document.elements[k] EXCEPT !.track = T]
            ELSE document.elements[k]]]

\* The track rearrangeTracks exchanges track T with.
Target(args) ==
    IF args.direction = "up" THEN args.track + 1 ELSE args.track - 1

\* C17, as the claim states it: rearrangeTracks(T, direction) with a loaded
\* state pushes the current document with the elements of track T and of the
\* target track exchanged and nothing else changed, unless the target
\* track is below 1: then it does nothing. (Where both tracks are empty
\* the exchange changes no element, and doing nothing is taken to be as
\* good as pushing the same document.)
C17_TracksExchanged ==
    [][Calls("rearrangeTracks") /\ Loaded =>
          LET state     == renderers[store.renderer].state
              exchanged == Exchanged(GetSource(state), state,
                                     result'.args.track, Target(result'.args))
          IN  IF Target(result'.args) < 1 THEN NothingDone
              ELSE \/ Pushes(exchanged)
                   \/ exchanged = GetSource(state) /\ NothingDone]_vars

\* C17, amended: it also does nothing when no top-level element is on
\* track T.
C17_TracksExchangedIfAny ==
    [][Calls("rearrangeTracks") /\ Loaded =>
          LET state == renderers[store.renderer].state
              T     == result'.args.track
          IN  IF \/ Target(result'.args) < 1
                 \/ \A k \in DOMAIN state.elements : state.elements[k].track # T
              THEN NothingDone
              ELSE Pushes(Exchanged(GetSource(state), state, T, Target(result'.args)))]_vars

\* rearrangeTracks(1, 'up') has pushed a document in which the first element
\* has moved to track 2 and the second to track 1.
C17_Witness ==
    /\ "operation" \in DOMAIN result
    /\ result.operation = "rearrangeTracks"
    /\ result.args = [track |-> 1, direction |-> "up"]
    /\ Len(outbox) = 1
    /\ outbox[1].source.elements[1].track = 2
    /\ outbox[1].source.elements[2].track = 1

\* C18: createElement, deleteElement and rearrangeTracks, called while the
\* store has no Renderer or its Renderer has no cached state, return without
\* an error, post nothing and change nothing.
C18_NotLoadedNoOp ==
    [][ /\ \/ Calls("createElement")
           \/ Calls("deleteElement")
           \/ Calls("rearrangeTracks")
        /\ ~Loaded
        => NothingDone /\ result'.kind = "completed"]_vars

\* deleteElement has been called on a store whose Renderer has no cached
\* state yet.
C18_Witness ==
    /\ "operation" \in DOMAIN result
    /\ result.operation = "deleteElement"
    /\ store.renderer # 0
    /\ renderers[store.renderer].state = Undefined

\* The document without the elements that have the id, at every level.
RECURSIVE RemoveById(_, _)
RemoveById(document, id) ==
    IF "elements" \notin DOMAIN document THEN document
    ELSE [document EXCEPT !.elements =
             LET kept == SelectSeq(@, LAMBDA e : e.id # id)
             IN  [k \in DOMAIN kept |-> RemoveById(kept[k], id)]]

\* C20, as the claim states it: deleteElement(id) with a loaded state pushes
\* the current document without the element that has the id, at whatever
\* level it is, and with every other element in its place and unchanged.
C20_ElementRemoved ==
    [][Calls("deleteElement") /\ Loaded =>
          Pushes(RemoveById(GetSource(renderers[store.renderer].state),
                            result'.args.elementId))]_vars

\* The store's Renderer handles a time-change event in this step.
TimeChangeHandled ==
    /\ IsEvent(delivered'.payload)
    /\ delivered'.payload.message = "onTimeChange"
    /\ \E k \in DOMAIN delivered'.runs : delivered'.runs[k].renderer = store.renderer

\* C19: a time-change event sets the store's time to the delivered time
\* when the store is not scrubbing and leaves it when it is; and nothing but
\* such an event and the store's own setTime changes the store's time: no
\* setTime call on the Renderer and no reply.
C19_TimeWhileScrubbing ==
    [][ /\ TimeChangeHandled =>
              store'.time = IF store.isScrubbing THEN store.time
                            ELSE Num(delivered'.payload.time)
        /\ store'.time # store.time =>
              \/ TimeChangeHandled /\ ~store.isScrubbing
              \/ Calls("setTime") /\ store'.time = Num(result'.args.time) ]_vars

\* While the store is scrubbing and has set its time to 2, its Renderer
\* handles a time-change event that reports 1.
C19_Witness ==
    /\ store.isScrubbing
    /\ store.time = Num(2)
    /\ IsEvent(delivered.payload)
    /\ delivered.payload.message = "onTimeChange"
    /\ delivered.payload.time = 1
    /\ \E k \in DOMAIN delivered.runs : delivered.runs[k].renderer = store.renderer
    /\ \E i \in DOMAIN calls : calls[i].method = "setTime" /\ calls[i].status = "resolved"
====
